---------------------------- MODULE Spec2Model ----------------------------
(***************************************************************************)
(* Model of the face-recognition service's core                            *)
(* (server/face-recognition): the lazily created bounded job queue of      *)
(* app.py with its pool of worker threads and the /process-photo handler   *)
(* (specifications Spec and FairSpec), the dynamic batch processor of      *)
(* dynamic_batch_processor.py (BatchSpec), the similarity calculator of    *)
(* gpu_similarity.py (SimSpec) and the worker's resolution of a file       *)
(* reference string (RefSpec).  Each specification moves the variables of  *)
(* its own component and leaves the others as they start.                  *)
(*                                                                         *)
(* Every request handler and every worker thread is a process with its    *)
(* own program counter.  One action is one step a thread takes between    *)
(* two points where another thread can run and observe shared state      *)
(* (the app object's attributes, the queue objects, the result channels). *)
(* Blocking calls with a timeout (Queue.get, Queue.put) are a pair of     *)
(* actions: the call completing and the timeout expiring; time itself is  *)
(* not modelled, so a timeout may expire whenever the call cannot         *)
(* complete.                                                               *)
(*                                                                         *)
(* The program's sizes are scaled down so that the state space is finite  *)
(* and small: MAX_WORKERS (24 in the source), the queue's maxsize (128)   *)
(* and the depth threshold (100) keep their order relations               *)
(* (threshold + 1 < maxsize) at small values.                             *)
(***************************************************************************)
EXTENDS Integers, Sequences, FiniteSets

\* ------------------------------------------------------------------ sizes

\* app.py:26  MAX_WORKERS = 24, scaled.
MAX_WORKERS == 1

\* app.py:212 queue.Queue(maxsize=128), scaled.
QueueMaxSize == 2

\* app.py:221 qsize() > 100, scaled.
SoftThreshold == 0

\* Number of /process-photo requests the environment sends.
NumReq == 3

\* How many of them may be inside the block that creates the pool
\* (app.py:212-218) at once; a later request arrives when the pool exists.
MaxRacers == 2

Requests == 1..NumReq

\* A thread slot for every worker the racing requests could start.
Workers == 1..(MaxRacers * MAX_WORKERS)

\* --------------------------------------------------------- request inputs

\* A file reference is what the code tests of the string (app.py:92, 111):
\* startswith('http'), 'cloudinary.com' in it, 24 hexadecimal characters.
\* One reference for each branch of the worker: a Cloudinary URL, a GridFS
\* id, a local path.
CloudinaryURL == [http |-> TRUE, cloudinary |-> TRUE, hex24 |-> FALSE]
GridFSId == [http |-> FALSE, cloudinary |-> FALSE, hex24 |-> TRUE]
LocalPath == [http |-> FALSE, cloudinary |-> FALSE, hex24 |-> FALSE]

\* The reference request r carries when it carries one: the requests take
\* the three kinds in turn.
ReferenceOf(r) ==
    CASE r % 3 = 1 -> CloudinaryURL
      [] r % 3 = 2 -> GridFSId
      [] OTHER -> LocalPath

\* What request.json of a request can be: no JSON object at all, an object
\* carrying neither field, or an object carrying a reference.
BodyKinds == { "malformed", "missing", "path" }

\* The value of body for a request whose body is left open until the handler
\* reads it.
Open == "open"

\* request.json of request r: no JSON object at all, an object carrying
\* neither field, or an object carrying a reference.
Bodies(r) ==
    { [kind |-> "malformed"], [kind |-> "missing"],
      [kind |-> "path", photo_path |-> ReferenceOf(r)] }

\* What the collaborators do while one job is processed: the HTTP fetch (or
\* the local file read) fails, cv2.imdecode returns None, the embedding
\* backend raises, or the backend returns None, [] or a list of faces.
Outcomes ==
    { "fetch_fails", "decode_none", "backend_raises",
      "returns_none", "returns_empty", "returns_faces" }

VARIABLES
    queues,         \* every queue.Queue(maxsize) object created, in order;
                    \* app.processing_queue is the last one
    nthreads,       \* worker threads started so far
    face_processor, \* the global: 0 is None, 1 is a FaceProcessor instance
    hpc,            \* handler of request r: its position in process_photo
    photo_path,     \* handler's local photo_path
    hq,             \* the queue object the handler's put() is blocked on
    has_rq,         \* requests whose result_queue was created
    result_queue,   \* the per-request result channel
    responses,      \* what the caller of request r received
    wpc,            \* worker thread w: its position in process_worker
    wq,             \* the queue object the worker's get() is blocked on
    work_item,      \* the item the worker dequeued
    nput,           \* history: puts made on the channel of request r
    nclaims         \* history: times the job of request r was dequeued

\* The variables of app.py's queue, handlers and workers.
avars == << queues, nthreads, face_processor, hpc, photo_path, hq, has_rq,
            result_queue, responses, wpc, wq, work_item, nput, nclaims >>

\* The input of the handlers.
VARIABLES
    body   \* request.json of request r: its kind, or Open

\* The variables of the dynamic batch processor.
VARIABLES
    GPU_AVAILABLE,     \* config.GPU_AVAILABLE
    bpc,               \* the caller's position in process_dynamic_batch
    ncalls,            \* calls that have ended
    image_paths,       \* the argument of the current (or last) call
    processing_queue,  \* self.processing_queue
    results,           \* self.results
    completed_count,   \* self.completed_count
    total_count,       \* self.total_count
    processing,        \* self.processing
    futures,           \* worker tasks submitted by the current call
    tpc,               \* worker task t: its position in _worker_task
    image_path,        \* worker task's local image_path (0: none)
    seq_results,       \* the local results of _process_sequential
    seq_i,             \* its loop index
    returned,          \* what the last call that ended gave its caller
    claimed,           \* history: the paths taken up in this call, in order
    failed,            \* history: the paths whose processing raised in it
    stop_ever,         \* history: stop_processing was called at some time
    progress_calls,    \* history: how often progress_callback was invoked
    reported           \* history: the counts the progress lines reported
                       \* during the processor's first call

bvars == << GPU_AVAILABLE, bpc, ncalls, image_paths, processing_queue, results,
            completed_count, total_count, processing, futures, tpc,
            image_path, seq_results, seq_i, returned, claimed, failed,
            stop_ever, progress_calls, reported >>

\* The variables of the similarity calculator.
VARIABLES
    CUPY_AVAILABLE,   \* import cupy succeeded
    TORCH_AVAILABLE,  \* import torch succeeded
    cupy_probe,       \* what the CuPy test of lines 44-45 does: "ok", "raises"
    torch_cuda,       \* torch.cuda.is_available(): "true", "false", "raises"
    spc,              \* the constructor's position
    gpu_available,    \* self.gpu_available
    device,           \* self.device
    ncalc,            \* calls of calculate_similarities made
    call              \* the last call: its arguments and what came of it

svars == << CUPY_AVAILABLE, TORCH_AVAILABLE, cupy_probe, torch_cuda, spc,
            gpu_available, device, ncalc, call >>

\* The variables of the resolution of one reference string.
VARIABLES
    photo_ref,   \* the reference string of a job
    ref_branch   \* the branch the worker took for it ("none": not yet)

rvars == << photo_ref, ref_branch >>

\* The variables of /compare-faces.
VARIABLES
    ncmp,   \* requests to /compare-faces answered
    cf      \* the last of them: its candidates and the response

cvars == << ncmp, cf >>

\* The variables of get_similarity_calculator.
VARIABLES
    similarity_calculator,  \* the global _similarity_calculator: 0 is None,
                            \* n the n-th calculator constructed
    gpc,                    \* caller c: its position in the function
    got,                    \* the calculator the call returned to c (0: none)
    ninstances              \* history: calculators constructed so far

gvars == << similarity_calculator, gpc, got, ninstances >>

\* The variables of the threads that call process_dynamic_batch on one
\* processor at overlapping times.
VARIABLES
    caller_pc,        \* caller c: its position in process_dynamic_batch
    caller_paths,     \* its argument image_paths
    caller_workers,   \* its local max_workers
    task_pc,          \* worker task t of caller c: its position
    task_path,        \* that task's local image_path (0: none)
    caller_returned   \* what the call gave caller c

ovars == << caller_pc, caller_paths, caller_workers, task_pc, task_path,
            caller_returned >>

\* What the actions of /process-photo and its workers leave alone.
others == << body, bvars, svars, rvars, cvars, gvars, ovars >>

vars ==
    << avars, body, bvars, svars, rvars, cvars, gvars, ovars >>

hvars == << hpc, photo_path, hq, has_rq, responses >>
wvars == << wpc, wq, work_item, nclaims >>

\* The value of a handler's photo_path while it holds no reference.
NoPath == LocalPath

\* A work item is the tuple (photo_path, result_queue) of app.py:239; job is
\* the request that made it and at its place in the order of the puts, 0
\* where that order is not recorded (history, the code holds no such fields).
NoItem == [photo_path |-> NoPath, result_queue |-> 0, job |-> 0, at |-> 0]

\* app.py:22-27  the process after start-up: no queue, no thread, no
\* face processor, no request yet
AppInit ==
    /\ queues = << >>
    /\ nthreads = 0
    /\ face_processor = 0
    /\ hpc = [r \in Requests |-> "start"]
    /\ photo_path = [r \in Requests |-> NoPath]
    /\ hq = [r \in Requests |-> 0]
    /\ has_rq = {}
    /\ result_queue = [r \in Requests |-> << >>]
    /\ responses = [r \in Requests |-> << >>]
    /\ wpc = [w \in Workers |-> "none"]
    /\ wq = [w \in Workers |-> 0]
    /\ work_item = [w \in Workers |-> NoItem]
    /\ nput = [r \in Requests |-> 0]
    /\ nclaims = [r \in Requests |-> 0]

\* ------------------------------------------------------------ the app object

\* hasattr(app, 'processing_queue')
HasQueue == Len(queues) > 0

\* The queue object app.processing_queue names now.
CurrentQueue == Len(queues)

\* Queue.qsize()
qsize(q) == Len(queues[q])

\* Queue.full() of a queue made with maxsize = QueueMaxSize
Full(q) == qsize(q) >= QueueMaxSize


\* ------------------------------------------------------- /process-photo

\* A jsonify(...) response with its status code; job names the job whose
\* result the response carries (0: none).
ErrorResponse(code, msg) ==
    [code |-> code, success |-> FALSE, faces |-> << >>, error |-> msg, job |-> 0]

\* Every result answered with 200, an error result too.
ResultResponse_ErrorAs200(res) ==
    [code |-> 200, success |-> res.status = "success", faces |-> res.faces,
     error |-> "", job |-> res.job]

\* app.py:247-252
ResultResponse(res) ==
    IF res.status = "success"
    THEN [code |-> 200, success |-> TRUE, faces |-> res.faces,
          error |-> "", job |-> res.job]
    ELSE [code |-> 500, success |-> FALSE, faces |-> << >>,
          error |-> "processing error", job |-> res.job]

\* return jsonify(...), code: the handler's locals end with it
Respond(r, resp) ==
    /\ responses' = [responses EXCEPT ![r] = Append(@, resp)]
    /\ hpc' = [hpc EXCEPT ![r] = "done"]
    /\ photo_path' = [photo_path EXCEPT ![r] = NoPath]
    /\ hq' = [hq EXCEPT ![r] = 0]

\* The comparison of the depth check written >= instead of >.
Overloaded_AtOrAbove(q) == qsize(q) >= SoftThreshold

\* The queue is over the threshold of app.py:221.
Overloaded(q) == qsize(q) > SoftThreshold

\* app.py:211  if not hasattr(app, 'processing_queue'): the attribute is
\* missing and the handler enters the block that creates the pool
HandlerHasattr(r) ==
    /\ hpc[r] = "start"
    /\ ~HasQueue
    /\ Cardinality({ x \in Requests : hpc[x] = "create" }) < MaxRacers
    /\ hpc' = [hpc EXCEPT ![r] = "create"]
    /\ UNCHANGED << queues, nthreads, face_processor, photo_path, hq, has_rq,
                    result_queue, responses, wvars, nput >>
    /\ UNCHANGED others

\* The threads one pool creation starts: the next MAX_WORKERS slots.
NewThreads == (nthreads + 1)..(nthreads + MAX_WORKERS)

\* app.py:212-218  the queue is created and bound, the workers started
HandlerCreatePool(r) ==
    /\ hpc[r] = "create"
    /\ queues' = Append(queues, << >>)
    /\ wpc' = [w \in Workers |-> IF w \in NewThreads THEN "start" ELSE wpc[w]]
    /\ nthreads' = nthreads + MAX_WORKERS
    /\ hpc' = [hpc EXCEPT ![r] = "check"]
    /\ UNCHANGED << face_processor, photo_path, hq, has_rq, result_queue,
                    responses, wq, work_item, nput, nclaims >>
    /\ UNCHANGED others

\* The handler is at the depth check of app.py:221: it created the pool, or
\* it found the attribute, which is never deleted once set.
AtCheck(r) == hpc[r] = "check" \/ (hpc[r] = "start" /\ HasQueue)

\* The depth check left out: the handler goes on to the put.
HandlerOverloaded_Skipped(r) ==
    /\ AtCheck(r)
    /\ Overloaded(CurrentQueue)
    /\ photo_path' = [photo_path EXCEPT ![r] = ReferenceOf(r)]
    /\ has_rq' = has_rq \cup {r}
    /\ hpc' = [hpc EXCEPT ![r] = "put"]
    /\ UNCHANGED << queues, nthreads, face_processor, hq, responses,
                    result_queue, wvars, nput >>
    /\ UNCHANGED others

\* app.py:221-222  the depth check finds the queue over the threshold
HandlerOverloaded(r) ==
    /\ AtCheck(r)
    /\ Overloaded(CurrentQueue)
    /\ Respond(r, ErrorResponse(503, "Service overloaded, please try again later"))
    /\ UNCHANGED << queues, nthreads, face_processor, has_rq, result_queue,
                    wvars, nput >>
    /\ UNCHANGED others

\* app.py:221-235  the depth check passes; the body is read and validated
\* and the request's result queue created
HandlerAccept(r) ==
    /\ AtCheck(r)
    /\ ~Overloaded(CurrentQueue)
    /\ \E b \in Bodies(r) :
       /\ body[r] \in {Open, b.kind}
       /\ \/ /\ b.kind = "malformed"
                /\ Respond(r, ErrorResponse(500, "exception"))
                /\ UNCHANGED has_rq
             \/ /\ b.kind = "missing"
                /\ Respond(r, ErrorResponse(400, "file_reference or photoPath is required"))
                /\ UNCHANGED has_rq
             \/ /\ b.kind = "path"
                /\ photo_path' = [photo_path EXCEPT ![r] = b.photo_path]
                /\ has_rq' = has_rq \cup {r}
                /\ hpc' = [hpc EXCEPT ![r] = "put"]
                /\ UNCHANGED << responses, hq >>
    /\ UNCHANGED << queues, nthreads, face_processor, result_queue,
                    wvars, nput >>
    /\ UNCHANGED others

\* The jobs put on a queue so far; a request puts one at most.
NumEnqueued ==
    Cardinality({ x \in Requests :
                    \/ nclaims[x] > 0
                    \/ \E q \in 1..Len(queues) :
                          \E i \in 1..Len(queues[q]) : queues[q][i].job = x })

\* The tuple of app.py:239.  The order of the puts is recorded where the
\* requests arrive with their bodies fixed (InputSpec).
WorkItem(r) ==
    [photo_path |-> photo_path[r], result_queue |-> r, job |-> r,
     at |-> IF body[r] = Open THEN 0 ELSE NumEnqueued + 1]

\* A queue made without maxsize: the put never waits.
Enqueue_Unbounded(q, item) ==
    queues' = [queues EXCEPT ![q] = Append(@, item)]

\* Queue.put on queue object q, when it has room.
Enqueue(q, item) ==
    /\ ~Full(q)
    /\ queues' = [queues EXCEPT ![q] = Append(@, item)]

\* app.py:239  app.processing_queue.put(..., timeout=5): the attribute is
\* read, and the put completes at once or blocks on that queue object
HandlerPut(r) ==
    /\ hpc[r] = "put"
    /\ \/ /\ Enqueue(CurrentQueue, WorkItem(r))
          /\ hpc' = [hpc EXCEPT ![r] = "await"]
          /\ UNCHANGED hq
       \/ /\ Full(CurrentQueue)
          /\ hq' = [hq EXCEPT ![r] = CurrentQueue]
          /\ hpc' = [hpc EXCEPT ![r] = "blocked"]
          /\ UNCHANGED queues
    /\ UNCHANGED << nthreads, face_processor, photo_path, has_rq,
                    result_queue, responses, wvars, nput >>
    /\ UNCHANGED others

\* the blocked put completes when a worker made room
HandlerPutUnblock(r) ==
    /\ hpc[r] = "blocked"
    /\ Enqueue(hq[r], WorkItem(r))
    /\ hq' = [hq EXCEPT ![r] = 0]
    /\ hpc' = [hpc EXCEPT ![r] = "await"]
    /\ UNCHANGED << nthreads, face_processor, photo_path, has_rq,
                    result_queue, responses, wvars, nput >>
    /\ UNCHANGED others

\* app.py:240-241  queue.Full after the put's timeout
HandlerPutFull(r) ==
    /\ hpc[r] = "blocked"
    /\ Full(hq[r])
    /\ Respond(r, ErrorResponse(503, "Service overloaded, please try again later"))
    /\ UNCHANGED << queues, nthreads, face_processor, has_rq,
                    result_queue, wvars, nput >>
    /\ UNCHANGED others

\* app.py:245-252  result_queue.get(timeout=120) returns a tuple
HandlerGetResult(r) ==
    /\ hpc[r] = "await"
    /\ result_queue[r] # << >>
    /\ result_queue' = [result_queue EXCEPT ![r] = Tail(@)]
    /\ Respond(r, ResultResponse(Head(result_queue[r])))
    /\ UNCHANGED << queues, nthreads, face_processor, has_rq, wvars, nput >>
    /\ UNCHANGED others

\* A timeout that cancels: the handler withdraws its job from the queue.
HandlerTimeout_Cancels(r) ==
    /\ hpc[r] = "await"
    /\ result_queue[r] = << >>
    /\ Respond(r, ErrorResponse(504, "Processing timeout"))
    /\ queues' = [q \in 1..Len(queues) |->
                     SelectSeq(queues[q], LAMBDA item : item.job # r)]
    /\ UNCHANGED << nthreads, face_processor, has_rq, result_queue,
                    wvars, nput >>
    /\ UNCHANGED others

\* A get without a timeout: the handler waits until a result arrives.
HandlerTimeout_Never(r) ==
    /\ hpc[r] = "await"
    /\ FALSE
    /\ UNCHANGED vars

\* app.py:254-256  queue.Empty after the get's timeout
HandlerTimeout(r) ==
    /\ hpc[r] = "await"
    /\ result_queue[r] = << >>
    /\ Respond(r, ErrorResponse(504, "Processing timeout"))
    /\ UNCHANGED << queues, nthreads, face_processor, has_rq,
                    result_queue, wvars, nput >>
    /\ UNCHANGED others

HandlerStep(r) ==
    \/ HandlerHasattr(r)
    \/ HandlerCreatePool(r)
    \/ HandlerOverloaded(r)
    \/ HandlerAccept(r)
    \/ HandlerPut(r)
    \/ HandlerPutUnblock(r)
    \/ HandlerPutFull(r)
    \/ HandlerGetResult(r)
    \/ HandlerTimeout(r)

\* ------------------------------------------------------- process_worker

\* The branch of app.py:92, 111, 130 a reference takes.
Branch(p) ==
    IF p.http /\ p.cloudinary THEN "cloudinary"
    ELSE IF p.hex24 THEN "gridfs"
    ELSE "local"

\* Something inside the branch's try block raises: the fetch or
\* raise_for_status, the decode returning None (app.py:105, 125), the
\* backend; for a local file, process_image_file for any of these reasons.
BranchRaises(out) ==
    out \in { "fetch_fails", "decode_none", "backend_raises" }

\* ('error', message)
ErrorResult(item) ==
    [status |-> "error", faces |-> << >>, job |-> item.job]

\* ('success', faces or [])
SuccessResult(item, faces) ==
    [status |-> "success",
     faces |-> IF faces = "returns_faces" THEN << "face" >> ELSE << >>,
     job |-> item.job]

\* app.py:92-136  the branch taken: the tuples put inside it, whether it
\* ended in `continue`, and the value of faces after it.
Resolve(item, out) ==
    IF BranchRaises(out)
    THEN [branch |-> Branch(item.photo_path), puts |-> << ErrorResult(item) >>,
          continued |-> TRUE, faces |-> "returns_none"]
    ELSE [branch |-> Branch(item.photo_path), puts |-> << >>,
          continued |-> FALSE, faces |-> out]

\* An empty list of faces treated as a failure.
Deliver_EmptyIsError(item, faces) ==
    IF faces \in {"returns_none", "returns_empty"}
    THEN << ErrorResult(item) >>
    ELSE << SuccessResult(item, faces) >>

\* app.py:138-147  after the branches: len(faces) raises on None and the
\* outer handler puts an error, else the success tuple is put.
Deliver(item, faces) ==
    IF faces = "returns_none"
    THEN << ErrorResult(item) >>
    ELSE << SuccessResult(item, faces) >>

\* The loop with the `continue` of the except blocks left out: the failed
\* branch falls through to the delivery.
IterationPuts_NoContinue(item, out) ==
    LET res == Resolve(item, out)
    IN  res.puts \o Deliver(item, res.faces)

\* app.py:85-151  every tuple one iteration of the loop puts, in order.
IterationPuts(item, out) ==
    LET res == Resolve(item, out)
    IN  IF res.continued THEN res.puts
        ELSE res.puts \o Deliver(item, res.faces)

\* app.py:59  get_face_processor: face_processor is None and the thread
\* enters the block that creates it
WorkerGetProcessor(w) ==
    /\ wpc[w] = "start"
    /\ face_processor = 0
    /\ wpc' = [wpc EXCEPT ![w] = "load"]
    /\ UNCHANGED << queues, nthreads, face_processor, hvars, result_queue,
                    wq, work_item, nput, nclaims >>
    /\ UNCHANGED others

\* app.py:61-66  the models are downloaded and FaceProcessor() constructed and
\* bound; sys.exit(1) or an exception of the constructor ends the thread
WorkerLoad(w) ==
    /\ wpc[w] = "load"
    /\ \/ /\ face_processor' = 1
          /\ wpc' = [wpc EXCEPT ![w] = "idle"]
       \/ /\ wpc' = [wpc EXCEPT ![w] = "dead"]
          /\ UNCHANGED face_processor
    /\ UNCHANGED << queues, nthreads, hvars, result_queue, wq, work_item,
                    nput, nclaims >>
    /\ UNCHANGED others

\* The thread is at the top of the loop of app.py:76: it came back to it, or
\* it found the global face_processor, which is never reset once bound.
AtLoop(w) == wpc[w] = "idle" \/ (wpc[w] = "start" /\ face_processor # 0)

\* app.py:79  app.processing_queue.get(timeout=30): the attribute is read
\* and the thread waits on that queue object
WorkerGet(w) ==
    /\ AtLoop(w)
    /\ wq' = [wq EXCEPT ![w] = CurrentQueue]
    /\ wpc' = [wpc EXCEPT ![w] = "get"]
    /\ UNCHANGED << queues, nthreads, face_processor, hvars, result_queue,
                    work_item, nput, nclaims >>
    /\ UNCHANGED others

\* A get that reads the head of the queue and leaves it there.
WorkerDequeue_Peek(w) ==
    /\ wpc[w] = "get"
    /\ queues[wq[w]] # << >>
    /\ work_item' = [work_item EXCEPT ![w] = Head(queues[wq[w]])]
    /\ nclaims' = [nclaims EXCEPT ![Head(queues[wq[w]]).job] = @ + 1]
    /\ wq' = [wq EXCEPT ![w] = 0]
    /\ wpc' = [wpc EXCEPT ![w] = "work"]
    /\ UNCHANGED << queues, nthreads, face_processor, hvars, result_queue,
                    nput >>
    /\ UNCHANGED others

\* app.py:79-83  the get returns the head of the queue
WorkerDequeue(w) ==
    /\ wpc[w] = "get"
    /\ queues[wq[w]] # << >>
    /\ work_item' = [work_item EXCEPT ![w] = Head(queues[wq[w]])]
    /\ queues' = [queues EXCEPT ![wq[w]] = Tail(@)]
    /\ nclaims' = [nclaims EXCEPT ![Head(queues[wq[w]]).job] = @ + 1]
    /\ wq' = [wq EXCEPT ![w] = 0]
    /\ wpc' = [wpc EXCEPT ![w] = "work"]
    /\ UNCHANGED << nthreads, face_processor, hvars, result_queue, nput >>
    /\ UNCHANGED others

\* app.py:153-154  queue.Empty after the get's timeout
WorkerEmpty(w) ==
    /\ wpc[w] = "get"
    /\ queues[wq[w]] = << >>
    /\ wq' = [wq EXCEPT ![w] = 0]
    /\ wpc' = [wpc EXCEPT ![w] = "idle"]
    /\ UNCHANGED << queues, nthreads, face_processor, hvars, result_queue,
                    work_item, nput, nclaims >>
    /\ UNCHANGED others

\* result_queue.put of each tuple in puts on channel ch
PutAll(ch, puts) ==
    /\ result_queue' = [result_queue EXCEPT ![ch] = @ \o puts]
    /\ nput' = [nput EXCEPT ![ch] = @ + Len(puts)]

\* The loop without the outer try: a failure inside it ends the thread.
WorkerProcess_Dies(w) ==
    /\ wpc[w] = "work"
    /\ \E out \in Outcomes :
          /\ PutAll(work_item[w].result_queue, IterationPuts(work_item[w], out))
          /\ wpc' = [wpc EXCEPT ![w] = IF BranchRaises(out) THEN "dead" ELSE "idle"]
    /\ work_item' = [work_item EXCEPT ![w] = NoItem]
    /\ UNCHANGED << queues, nthreads, face_processor, hvars, wq, nclaims >>
    /\ UNCHANGED others

\* app.py:85-151  the item is processed, its result put on the item's
\* result queue, and the thread goes back to the top of the loop
WorkerProcess(w) ==
    /\ wpc[w] = "work"
    /\ \E out \in Outcomes :
          PutAll(work_item[w].result_queue, IterationPuts(work_item[w], out))
    /\ work_item' = [work_item EXCEPT ![w] = NoItem]
    /\ wpc' = [wpc EXCEPT ![w] = "idle"]
    /\ UNCHANGED << queues, nthreads, face_processor, hvars, wq, nclaims >>
    /\ UNCHANGED others

WorkerStep(w) ==
    \/ WorkerGetProcessor(w)
    \/ WorkerLoad(w)
    \/ WorkerGet(w)
    \/ WorkerDequeue(w)
    \/ WorkerEmpty(w)
    \/ WorkerProcess(w)

\* ---------------------------------------------------- dynamic_batch_processor.py

\* config.MAX_CONCURRENT_IMAGES (dynamic_batch_processor.py:13), scaled.
MAX_CONCURRENT_IMAGES == 2

\* dynamic_batch_processor.py:62  the literal 16 of min(..., 16), scaled.
WorkerCap == 3

\* The distinct image paths the callers name.
MaxPaths == 3

\* The calls of process_dynamic_batch made on the one processor, one after
\* another.
NumCalls == 2

Paths == 1..MaxPaths

Min2(a, b) == IF a <= b THEN a ELSE b

\* A slot for every worker task one call can submit.
Tasks == 1..Min2(MAX_CONCURRENT_IMAGES, WorkerCap)

\* The elements of a sequence.
Range(s) == { s[i] : i \in 1..Len(s) }

\* The argument image_paths: every list of distinct paths, the empty one too.
InputLists ==
    UNION { { s \in [1..n -> Paths] : \A i, j \in 1..n : i # j => s[i] # s[j] } :
            n \in 0..MaxPaths }

\* What face_processor.process_image_file does for one image: it returns a
\* list of faces, returns an empty list, or raises.
BatchOutcomes == { "returns_faces", "returns_empty", "raises" }

\* The list process_image_file returned.
Faces(out) == IF out = "returns_faces" THEN << "face" >> ELSE << >>

\* A dict from paths to face lists: {} and d[k] = v.
EmptyMap == [p \in {} |-> << >>]

Store(d, k, v) == [p \in (DOMAIN d) \cup {k} |-> IF p = k THEN v ELSE d[p]]

\* What a call gave its caller: nothing yet, a dict, or an exception.
NoReturn == [kind |-> "none", value |-> EmptyMap]
Mapping(d) == [kind |-> "mapping", value |-> d]
Raised == [kind |-> "raised", value |-> EmptyMap]

\* dynamic_batch_processor.py:23-31  a new DynamicBatchProcessor, on a host
\* with or without an accelerator
BatchInit ==
    /\ GPU_AVAILABLE \in BOOLEAN
    /\ bpc = "idle"
    /\ ncalls = 0
    /\ image_paths = << >>
    /\ processing_queue = << >>
    /\ results = EmptyMap
    /\ completed_count = 0
    /\ total_count = 0
    /\ processing = FALSE
    /\ futures = 0
    /\ tpc = [t \in Tasks |-> "none"]
    /\ image_path = [t \in Tasks |-> 0]
    /\ seq_results = EmptyMap
    /\ seq_i = 0
    /\ returned = NoReturn
    /\ claimed = << >>
    /\ failed = {}
    /\ stop_ever = FALSE
    /\ progress_calls = 0
    /\ reported = {}

\* dynamic_batch_processor.py:104  the counts at which progress is logged:
\* the multiples of 10 (scaled) and the number of inputs of the call.
ProgressEvery == 2

Milestone(k) == k % ProgressEvery = 0 \/ k = total_count

\* dynamic_batch_processor.py:62  min(MAX_CONCURRENT_IMAGES, total_count, 16)
max_workers(n) == Min2(Min2(MAX_CONCURRENT_IMAGES, n), WorkerCap)

\* The accelerator test of line 45 left out: the concurrent path is always
\* taken.
BatchCall_AlwaysConcurrent(paths) ==
    /\ bpc = "idle"
    /\ ncalls < NumCalls
    /\ max_workers(Len(paths)) > 0
    /\ image_paths' = paths
    /\ claimed' = << >>
    /\ failed' = {}
    /\ total_count' = Len(paths)
    /\ completed_count' = 0
    /\ results' = EmptyMap
    /\ processing' = TRUE
    /\ processing_queue' = processing_queue \o paths
    /\ futures' = 0
    /\ tpc' = [t \in Tasks |-> "none"]
    /\ bpc' = "submit"
    /\ reported' = {}
    /\ UNCHANGED << GPU_AVAILABLE, ncalls, image_path, seq_results, seq_i,
                    returned, stop_ever >>
    /\ UNCHANGED << avars, body, svars, rvars, cvars, gvars, ovars, progress_calls >>

\* dynamic_batch_processor.py:45-64  process_dynamic_batch is called: without
\* an accelerator it goes to _process_sequential; with one it resets the
\* counters and the result dict, sets the flag, puts every path on the queue
\* and creates the executor, which raises ValueError for max_workers = 0
BatchCall(paths) ==
    /\ bpc = "idle"
    /\ ncalls < NumCalls
    /\ image_paths' = paths
    /\ claimed' = << >>
    /\ failed' = {}
    /\ IF ~GPU_AVAILABLE
       THEN /\ seq_results' = EmptyMap
            /\ seq_i' = 1
            /\ bpc' = "seq"
            /\ UNCHANGED << ncalls, processing_queue, results, completed_count,
                            total_count, processing, futures, tpc, returned >>
       ELSE /\ total_count' = Len(paths)
            /\ completed_count' = 0
            /\ results' = EmptyMap
            /\ processing' = TRUE
            /\ processing_queue' = processing_queue \o paths
            /\ futures' = 0
            /\ tpc' = [t \in Tasks |-> "none"]
            /\ IF max_workers(Len(paths)) = 0
               THEN /\ bpc' = "idle"
                    /\ returned' = Raised
                    /\ ncalls' = ncalls + 1
               ELSE /\ bpc' = "submit"
                    /\ UNCHANGED << returned, ncalls >>
            /\ UNCHANGED << seq_results, seq_i >>
    /\ reported' = {}
    /\ UNCHANGED << GPU_AVAILABLE, image_path, stop_ever >>
    /\ UNCHANGED << avars, body, svars, rvars, cvars, gvars, ovars, progress_calls >>

\* dynamic_batch_processor.py:67-69  executor.submit(self._worker_task): one
\* more worker task, which may start to run at once
BatchSubmit ==
    /\ bpc = "submit"
    /\ futures' = futures + 1
    /\ tpc' = [tpc EXCEPT ![futures + 1] = "loop"]
    /\ bpc' = IF futures + 1 = max_workers(total_count) THEN "wait" ELSE "submit"
    /\ UNCHANGED << GPU_AVAILABLE, ncalls, image_paths, processing_queue,
                    results, completed_count, total_count, processing,
                    image_path, seq_results, seq_i, returned, claimed, failed,
                    stop_ever >>
    /\ UNCHANGED << avars, body, svars, rvars, cvars, gvars, ovars, progress_calls,
                    reported >>

\* dynamic_batch_processor.py:72-84  every future is done, the executor is
\* shut down and self.results returned
BatchReturn ==
    /\ bpc = "wait"
    /\ \A t \in 1..futures : tpc[t] = "exited"
    /\ returned' = Mapping(results)
    /\ ncalls' = ncalls + 1
    /\ bpc' = "idle"
    /\ UNCHANGED << GPU_AVAILABLE, image_paths, processing_queue, results,
                    completed_count, total_count, processing, futures, tpc,
                    image_path, seq_results, seq_i, claimed, failed,
                    stop_ever >>
    /\ UNCHANGED << avars, body, svars, rvars, cvars, gvars, ovars, progress_calls,
                    reported >>

\* dynamic_batch_processor.py:125-132  one turn of the loop of
\* _process_sequential: the next path is processed in the caller's thread and
\* its faces, or [] when processing raised, stored under it
SeqProcess ==
    /\ bpc = "seq"
    /\ seq_i <= Len(image_paths)
    /\ claimed' = Append(claimed, image_paths[seq_i])
    /\ \E out \in BatchOutcomes :
          /\ seq_results' = Store(seq_results, image_paths[seq_i], Faces(out))
          /\ failed' = IF out = "raises" THEN failed \cup {image_paths[seq_i]}
                       ELSE failed
    /\ seq_i' = seq_i + 1
    /\ UNCHANGED << GPU_AVAILABLE, bpc, ncalls, image_paths, processing_queue,
                    results, completed_count, total_count, processing, futures,
                    tpc, image_path, returned, stop_ever >>
    /\ UNCHANGED << avars, body, svars, rvars, cvars, gvars, ovars, progress_calls,
                    reported >>

\* dynamic_batch_processor.py:133  return results
SeqReturn ==
    /\ bpc = "seq"
    /\ seq_i > Len(image_paths)
    /\ returned' = Mapping(seq_results)
    /\ ncalls' = ncalls + 1
    /\ bpc' = "idle"
    /\ UNCHANGED << GPU_AVAILABLE, image_paths, processing_queue, results,
                    completed_count, total_count, processing, futures, tpc,
                    image_path, seq_results, seq_i, claimed, failed,
                    stop_ever >>
    /\ UNCHANGED << avars, body, svars, rvars, cvars, gvars, ovars, progress_calls,
                    reported >>

\* dynamic_batch_processor.py:88  the loop test of _worker_task:
\* self.processing and not self.processing_queue.empty()
TaskLoop(t) ==
    /\ tpc[t] = "loop"
    /\ tpc' = [tpc EXCEPT ![t] =
                  IF processing /\ processing_queue # << >> THEN "get"
                  ELSE "exited"]
    /\ UNCHANGED << GPU_AVAILABLE, bpc, ncalls, image_paths, processing_queue,
                    results, completed_count, total_count, processing, futures,
                    image_path, seq_results, seq_i, returned, claimed, failed,
                    stop_ever >>
    /\ UNCHANGED << avars, body, svars, rvars, cvars, gvars, ovars, progress_calls,
                    reported >>

\* A claim that is not atomic: the head is read first and removed later, so
\* two tasks that are at the get together read the same head.
TaskGet_Peek(t) ==
    /\ tpc[t] = "get"
    /\ processing_queue # << >>
    /\ image_path' = [image_path EXCEPT ![t] = Head(processing_queue)]
    /\ claimed' = Append(claimed, Head(processing_queue))
    /\ processing_queue' =
          IF \E u \in Tasks \ {t} : tpc[u] = "get" THEN processing_queue
          ELSE Tail(processing_queue)
    /\ tpc' = [tpc EXCEPT ![t] = "process"]
    /\ UNCHANGED << GPU_AVAILABLE, bpc, ncalls, image_paths, results,
                    completed_count, total_count, processing, futures,
                    seq_results, seq_i, returned, failed, stop_ever >>
    /\ UNCHANGED << avars, body, svars, rvars, cvars, gvars, ovars, progress_calls,
                    reported >>

\* dynamic_batch_processor.py:91, 114-115  get_nowait(): the head of the
\* queue is removed and becomes the task's image_path, or queue.Empty is
\* raised and the task leaves the loop
TaskGet(t) ==
    /\ tpc[t] = "get"
    /\ IF processing_queue # << >>
       THEN /\ image_path' = [image_path EXCEPT ![t] = Head(processing_queue)]
            /\ processing_queue' = Tail(processing_queue)
            /\ claimed' = Append(claimed, Head(processing_queue))
            /\ tpc' = [tpc EXCEPT ![t] = "process"]
       ELSE /\ tpc' = [tpc EXCEPT ![t] = "exited"]
            /\ UNCHANGED << image_path, processing_queue, claimed >>
    /\ UNCHANGED << GPU_AVAILABLE, bpc, ncalls, image_paths, results,
                    completed_count, total_count, processing, futures,
                    seq_results, seq_i, returned, failed, stop_ever >>
    /\ UNCHANGED << avars, body, svars, rvars, cvars, gvars, ovars, progress_calls,
                    reported >>

\* The except block of lines 116-120 without its increment: an item whose
\* processing failed is not counted.
TaskProcess_FailureNotCounted(t) ==
    /\ tpc[t] = "process"
    /\ \E out \in BatchOutcomes :
          IF out = "raises"
          THEN /\ failed' = failed \cup {image_path[t]}
               /\ tpc' = [tpc EXCEPT ![t] = "loop"]
               /\ UNCHANGED << results, completed_count >>
          ELSE /\ results' = Store(results, image_path[t], Faces(out))
               /\ completed_count' = completed_count + 1
               /\ tpc' = [tpc EXCEPT ![t] = "log"]
               /\ UNCHANGED failed
    /\ image_path' = [image_path EXCEPT ![t] = 0]
    /\ UNCHANGED << GPU_AVAILABLE, bpc, ncalls, image_paths, processing_queue,
                    total_count, processing, futures, seq_results, seq_i,
                    returned, claimed, stop_ever >>
    /\ UNCHANGED << avars, body, svars, rvars, cvars, gvars, ovars, progress_calls,
                    reported >>

\* The except block of lines 116-120 ending in break: the task that hit the
\* failure leaves the loop.
TaskProcess_BreaksOnFailure(t) ==
    /\ tpc[t] = "process"
    /\ \E out \in BatchOutcomes :
          IF out = "raises"
          THEN /\ completed_count' = completed_count + 1
               /\ failed' = failed \cup {image_path[t]}
               /\ tpc' = [tpc EXCEPT ![t] = "exited"]
               /\ UNCHANGED results
          ELSE /\ results' = Store(results, image_path[t], Faces(out))
               /\ completed_count' = completed_count + 1
               /\ tpc' = [tpc EXCEPT ![t] = "log"]
               /\ UNCHANGED failed
    /\ image_path' = [image_path EXCEPT ![t] = 0]
    /\ UNCHANGED << GPU_AVAILABLE, bpc, ncalls, image_paths, processing_queue,
                    total_count, processing, futures, seq_results, seq_i,
                    returned, claimed, stop_ever >>
    /\ UNCHANGED << avars, body, svars, rvars, cvars, gvars, ovars, progress_calls,
                    reported >>

\* dynamic_batch_processor.py:95-101, 116-120  the image is processed: its
\* faces are stored and the counter incremented under the lock (99-101) and
\* the task goes on to the progress line, or the exception is caught, only
\* the counter incremented (116-120) and the task continues with the loop
\* test
TaskProcess(t) ==
    /\ tpc[t] = "process"
    /\ \E out \in BatchOutcomes :
          IF out = "raises"
          THEN /\ completed_count' = completed_count + 1
               /\ failed' = failed \cup {image_path[t]}
               /\ tpc' = [tpc EXCEPT ![t] = "loop"]
               /\ UNCHANGED results
          ELSE /\ results' = Store(results, image_path[t], Faces(out))
               /\ completed_count' = completed_count + 1
               /\ tpc' = [tpc EXCEPT ![t] = "log"]
               /\ UNCHANGED failed
    /\ image_path' = [image_path EXCEPT ![t] = 0]
    /\ UNCHANGED << GPU_AVAILABLE, bpc, ncalls, image_paths, processing_queue,
                    total_count, processing, futures, seq_results, seq_i,
                    returned, claimed, stop_ever >>
    /\ UNCHANGED << avars, body, svars, rvars, cvars, gvars, ovars, progress_calls,
                    reported >>

\* dynamic_batch_processor.py:104-112  the progress line: the counter is read
\* again, outside the lock, and logged if it is a milestone; then the
\* clean-up, and back to the loop test
TaskLog(t) ==
    /\ tpc[t] = "log"
    /\ reported' = IF ncalls = 0 /\ Milestone(completed_count)
                   THEN reported \cup {completed_count}
                   ELSE reported
    /\ tpc' = [tpc EXCEPT ![t] = "loop"]
    /\ UNCHANGED << GPU_AVAILABLE, bpc, ncalls, image_paths, processing_queue,
                    results, completed_count, total_count, processing, futures,
                    image_path, seq_results, seq_i, returned, claimed, failed,
                    stop_ever >>
    /\ UNCHANGED << avars, body, svars, rvars, cvars, gvars, ovars, progress_calls >>

TaskStep(t) ==
    \/ TaskLoop(t)
    \/ TaskGet(t)
    \/ TaskProcess(t)
    \/ TaskLog(t)

\* dynamic_batch_processor.py:135-137  stop_processing, from any thread
StopProcessing ==
    /\ processing \/ ~stop_ever
    /\ processing' = FALSE
    /\ stop_ever' = TRUE
    /\ UNCHANGED << GPU_AVAILABLE, bpc, ncalls, image_paths, processing_queue,
                    results, completed_count, total_count, futures, tpc,
                    image_path, seq_results, seq_i, returned, claimed, failed >>
    /\ UNCHANGED << avars, body, svars, rvars, cvars, gvars, ovars, progress_calls,
                    reported >>

BatchNext ==
    \/ \E paths \in InputLists : BatchCall(paths)
    \/ BatchSubmit
    \/ BatchReturn
    \/ SeqProcess
    \/ SeqReturn
    \/ \E t \in Tasks : TaskStep(t)
    \/ StopProcessing


\* ------------------------- dynamic_batch_processor.py: calls that overlap

\* The threads that call process_dynamic_batch on the processor returned by
\* get_dynamic_processor, once each.
NumCallers == 2

Callers == 1..NumCallers

\* The argument of such a call: one or two distinct paths.
CallerLists == { s \in InputLists : Len(s) \in 1..2 }

\* The fields of the batch model that belong to its single caller.
single == << GPU_AVAILABLE, bpc, ncalls, image_paths, futures, tpc, image_path,
             seq_results, seq_i, returned, claimed, failed, stop_ever,
             progress_calls, reported >>

\* No caller has called yet.
OverlapInit ==
    /\ caller_pc = [c \in Callers |-> "start"]
    /\ caller_paths = [c \in Callers |-> << >>]
    /\ caller_workers = [c \in Callers |-> 0]
    /\ task_pc = [c \in Callers |-> [t \in Tasks |-> "none"]]
    /\ task_path = [c \in Callers |-> [t \in Tasks |-> 0]]
    /\ caller_returned = [c \in Callers |-> NoReturn]

\* dynamic_batch_processor.py:49-59  caller c enters the accelerated path:
\* the counters and the result dict of the instance are reset, the flag set
\* and the paths put on the instance's queue
OverlapCall(c, paths) ==
    /\ caller_pc[c] = "start"
    /\ caller_paths' = [caller_paths EXCEPT ![c] = paths]
    /\ total_count' = Len(paths)
    /\ completed_count' = 0
    /\ results' = EmptyMap
    /\ processing' = TRUE
    /\ processing_queue' = processing_queue \o paths
    /\ caller_pc' = [caller_pc EXCEPT ![c] = "submit"]
    /\ UNCHANGED << caller_workers, task_pc, task_path, caller_returned >>
    /\ UNCHANGED << single, avars, body, svars, rvars, cvars, gvars >>

\* dynamic_batch_processor.py:62-69  max_workers is computed from
\* self.total_count as it is now, and that many worker tasks are submitted
\* to the call's own executor
OverlapSubmit(c) ==
    /\ caller_pc[c] = "submit"
    /\ max_workers(total_count) > 0
    /\ caller_workers' = [caller_workers EXCEPT ![c] = max_workers(total_count)]
    /\ task_pc' = [task_pc EXCEPT ![c] =
                      [t \in Tasks |->
                          IF t <= max_workers(total_count) THEN "loop"
                          ELSE "none"]]
    /\ caller_pc' = [caller_pc EXCEPT ![c] = "wait"]
    /\ UNCHANGED << caller_paths, task_path, caller_returned >>
    /\ UNCHANGED << processing_queue, results, completed_count, total_count,
                    processing >>
    /\ UNCHANGED << single, avars, body, svars, rvars, cvars, gvars >>

\* dynamic_batch_processor.py:88-91, 114-115  the loop test and the
\* get_nowait() of a worker task: it takes the head of the instance's queue,
\* or leaves the loop when the queue is empty
OverlapTaskGet(c, t) ==
    /\ task_pc[c][t] = "loop"
    /\ IF processing /\ processing_queue # << >>
       THEN /\ task_path' = [task_path EXCEPT ![c][t] = Head(processing_queue)]
            /\ processing_queue' = Tail(processing_queue)
            /\ task_pc' = [task_pc EXCEPT ![c][t] = "process"]
       ELSE /\ task_pc' = [task_pc EXCEPT ![c][t] = "exited"]
            /\ UNCHANGED << task_path, processing_queue >>
    /\ UNCHANGED << caller_pc, caller_paths, caller_workers, caller_returned >>
    /\ UNCHANGED << results, completed_count, total_count, processing >>
    /\ UNCHANGED << single, avars, body, svars, rvars, cvars, gvars >>

\* dynamic_batch_processor.py:95-112  the image is processed and its faces
\* stored in the dict self.results is bound to now, the counter incremented.
\* The processing of every image succeeds here: what a failure does to a
\* call is followed in the batch model above.
OverlapTaskProcess(c, t) ==
    /\ task_pc[c][t] = "process"
    /\ \E out \in BatchOutcomes \ { "raises" } :
          results' = Store(results, task_path[c][t], Faces(out))
    /\ completed_count' = completed_count + 1
    /\ task_path' = [task_path EXCEPT ![c][t] = 0]
    /\ task_pc' = [task_pc EXCEPT ![c][t] = "loop"]
    /\ UNCHANGED << caller_pc, caller_paths, caller_workers, caller_returned >>
    /\ UNCHANGED << processing_queue, total_count, processing >>
    /\ UNCHANGED << single, avars, body, svars, rvars, cvars, gvars >>

\* dynamic_batch_processor.py:72-84  the worker tasks of the call are done
\* and the dict self.results is bound to now is returned
OverlapReturn(c) ==
    /\ caller_pc[c] = "wait"
    /\ \A t \in 1..caller_workers[c] : task_pc[c][t] = "exited"
    /\ caller_returned' = [caller_returned EXCEPT ![c] = Mapping(results)]
    /\ caller_pc' = [caller_pc EXCEPT ![c] = "done"]
    /\ UNCHANGED << caller_paths, caller_workers, task_pc, task_path >>
    /\ UNCHANGED << processing_queue, results, completed_count, total_count,
                    processing >>
    /\ UNCHANGED << single, avars, body, svars, rvars, cvars, gvars >>

OverlapNext ==
    \E c \in Callers :
       \/ \E paths \in CallerLists : OverlapCall(c, paths)
       \/ OverlapSubmit(c)
       \/ \E t \in Tasks : OverlapTaskGet(c, t)
       \/ \E t \in Tasks : OverlapTaskProcess(c, t)
       \/ OverlapReturn(c)


\* ---------------------------------------------------- gpu_similarity.py

\* The candidates of one call number at most MaxCands.
MaxCands == 2

\* The calls of calculate_similarities made on the one calculator.
NumSimCalls == 2

\* The embeddings callers pass: vectors of one dimension (512 in the source,
\* 2 here), the zero vector among them.
Embeddings == { << 1, 0 >>, << 0, 1 >>, << 1, 1 >>, << -1, 0 >>, << 0, 0 >> }

\* The argument stored_embeddings: the rows of an N x D array, N = 0 too.
CandidateLists == UNION { [1..n -> Embeddings] : n \in 0..MaxCands }

\* np.dot of two vectors, and the square of np.linalg.norm.
RECURSIVE DotUpTo(_, _, _)
DotUpTo(a, b, n) == IF n = 0 THEN 0 ELSE DotUpTo(a, b, n - 1) + a[n] * b[n]

Dot(a, b) == DotUpTo(a, b, Len(a))

Norm2(a) == Dot(a, a)

RECURSIVE GCD(_, _)
GCD(a, b) == IF b = 0 THEN a ELSE GCD(b, a % b)

\* The number dot / sqrt(den), den > 0, written so that equal numbers are
\* equal values: its sign and its square as a fraction in lowest terms.
Quotient(dot, den) ==
    LET g == GCD(dot * dot, den)
    IN  [sgn |-> IF dot > 0 THEN 1 ELSE IF dot < 0 THEN 0 - 1 ELSE 0,
         num |-> (dot * dot) \div g,
         den |-> den \div g]

\* The floating-point values 0.0 and nan.
Zero == [sgn |-> 0, num |-> 0, den |-> 1]
NaN == [sgn |-> 0, num |-> 0, den |-> 0]

\* np.linalg.norm(stored_embeddings, axis=1), squared: one norm for each row
Norms(stored) == [i \in 1..Len(stored) |-> Norm2(stored[i])]

\* np.dot(query_embedding, stored_embeddings.T): one product for each row
DotProducts(q, stored) == [i \in 1..Len(stored) |-> Dot(q, stored[i])]

\* dot_products / (query_norm * stored_norms), element by element: 0/0 is
\* nan, with a warning and no exception
Divide(dots, qnorm, norms) ==
    [i \in 1..Len(dots) |->
        IF qnorm * norms[i] = 0 THEN NaN ELSE Quotient(dots[i], qnorm * norms[i])]

\* gpu_similarity.py:127-131  torch.nn.functional.cosine_similarity(..., dim=1)
\* bounds the norms below by eps: a zero vector gives 0
TorchCosine(q, stored) ==
    [i \in 1..Len(stored) |->
        IF Norm2(q) * Norm2(stored[i]) = 0 THEN Zero
        ELSE Quotient(Dot(q, stored[i]), Norm2(q) * Norm2(stored[i]))]

\* np.zeros(n)
Zeros(n) == [i \in 1..n |-> Zero]

\* The scores given back in reverse row order.
numpy_cosine_similarity_Reversed(q, stored) ==
    [i \in 1..Len(stored) |->
        Divide(DotProducts(q, stored), Norm2(q), Norms(stored))[Len(stored) + 1 - i]]

\* The except block giving np.zeros(1) for an empty candidate list.
numpy_cosine_similarity_ZerosOfOne(q, stored) ==
    IF Len(stored) = 0 THEN Zeros(1)
    ELSE Divide(DotProducts(q, stored), Norm2(q), Norms(stored))

\* gpu_similarity.py:141-160  _numpy_cosine_similarity: norm(axis=1) raises
\* on the one-dimensional array that an empty candidate list makes, and the
\* except block returns zeros
numpy_cosine_similarity(q, stored) ==
    IF Len(stored) = 0 THEN Zeros(Len(stored))
    ELSE Divide(DotProducts(q, stored), Norm2(q), Norms(stored))

\* gpu_similarity.py:89-114  _cupy_cosine_similarity: the same operations on
\* the accelerator; fails stands for any exception inside the try block,
\* which an empty candidate list raises too
cupy_cosine_similarity(q, stored, fails) ==
    IF fails \/ Len(stored) = 0 THEN numpy_cosine_similarity(q, stored)
    ELSE Divide(DotProducts(q, stored), Norm2(q), Norms(stored))

\* gpu_similarity.py:116-139  _torch_cosine_similarity
torch_cosine_similarity(q, stored, fails) ==
    IF fails \/ Len(stored) = 0 THEN numpy_cosine_similarity(q, stored)
    ELSE TorchCosine(q, stored)

\* The call record before any call.
NoCall == [query |-> << 0, 0 >>, stored |-> << >>, failed |-> FALSE,
           nfailed |-> 0, similarities |-> << >>, raised |-> FALSE]

\* gpu_similarity.py:12-28, 174  the module is imported on a host where each
\* library is installed or not and works or not; no calculator exists yet
SimInit ==
    /\ CUPY_AVAILABLE \in BOOLEAN
    /\ TORCH_AVAILABLE \in BOOLEAN
    /\ cupy_probe \in { "ok", "raises" }
    /\ torch_cuda \in { "true", "false", "raises" }
    /\ spc = "new"
    /\ gpu_available = FALSE
    /\ device = "none"
    /\ ncalc = 0
    /\ call = NoCall

\* gpu_similarity.py:39-59  _check_gpu_availability
check_gpu_availability ==
    IF CUPY_AVAILABLE THEN cupy_probe = "ok"
    ELSE IF TORCH_AVAILABLE THEN torch_cuda = "true"
    ELSE FALSE

\* The torch branch of line 65 testing self.gpu_available instead of probing.
get_best_device_ByFlag ==
    IF CUPY_AVAILABLE /\ gpu_available THEN "cupy"
    ELSE IF TORCH_AVAILABLE /\ gpu_available THEN "torch"
    ELSE "numpy"

\* gpu_similarity.py:61-68  _get_best_device, when it returns
get_best_device ==
    IF CUPY_AVAILABLE /\ gpu_available THEN "cupy"
    ELSE IF TORCH_AVAILABLE /\ torch_cuda = "true" THEN "torch"
    ELSE "numpy"

\* gpu_similarity.py:65  torch.cuda.is_available() is reached, outside any
\* try block, and raises
get_best_device_raises ==
    /\ ~(CUPY_AVAILABLE /\ gpu_available)
    /\ TORCH_AVAILABLE
    /\ torch_cuda = "raises"

\* gpu_similarity.py:35  self.gpu_available = self._check_gpu_availability()
SimCheckGpu ==
    /\ spc = "new"
    /\ gpu_available' = check_gpu_availability
    /\ spc' = "probed"
    /\ UNCHANGED << CUPY_AVAILABLE, TORCH_AVAILABLE, cupy_probe, torch_cuda,
                    device, ncalc, call >>
    /\ UNCHANGED << avars, body, bvars, rvars, cvars, gvars, ovars >>

\* gpu_similarity.py:36  self.device = self._get_best_device(): the
\* constructor ends, with the calculator bound, or with the exception of
\* line 65 and no calculator
SimGetBestDevice ==
    /\ spc = "probed"
    /\ IF get_best_device_raises
       THEN spc' = "failed" /\ UNCHANGED device
       ELSE spc' = "ready" /\ device' = get_best_device
    /\ UNCHANGED << CUPY_AVAILABLE, TORCH_AVAILABLE, cupy_probe, torch_cuda,
                    gpu_available, ncalc, call >>
    /\ UNCHANGED << avars, body, bvars, rvars, cvars, gvars, ovars >>

\* A fallback taken on the first failure only: a later failure reaches the
\* caller.
cosine_similarity_batch_FallbackOnce(q, stored, fails) ==
    IF fails /\ call.nfailed > 0
    THEN [similarities |-> << >>, raised |-> TRUE]
    ELSE [similarities |->
             IF device = "cupy" /\ CUPY_AVAILABLE
             THEN cupy_cosine_similarity(q, stored, fails)
             ELSE IF device = "torch" /\ TORCH_AVAILABLE
             THEN torch_cosine_similarity(q, stored, fails)
             ELSE numpy_cosine_similarity(q, stored),
          raised |-> FALSE]

\* gpu_similarity.py:70-87  cosine_similarity_batch: what the call gives its
\* caller, an array and no exception
cosine_similarity_batch(q, stored, fails) ==
    [similarities |->
        IF device = "cupy" /\ CUPY_AVAILABLE
        THEN cupy_cosine_similarity(q, stored, fails)
        ELSE IF device = "torch" /\ TORCH_AVAILABLE
        THEN torch_cosine_similarity(q, stored, fails)
        ELSE numpy_cosine_similarity(q, stored),
     raised |-> FALSE]

\* gpu_similarity.py:184-197  calculate_similarities on the constructed
\* calculator; the accelerated backend works or fails during this call
SimCall ==
    /\ spc = "ready"
    /\ ncalc < NumSimCalls
    /\ \E q \in Embeddings, stored \in CandidateLists, fails \in BOOLEAN :
          /\ fails => device \in { "cupy", "torch" }
          /\ LET out == cosine_similarity_batch(q, stored, fails)
             IN  call' = [query |-> q, stored |-> stored, failed |-> fails,
                          nfailed |-> call.nfailed + (IF fails THEN 1 ELSE 0),
                          similarities |-> out.similarities,
                          raised |-> out.raised]
    /\ ncalc' = ncalc + 1
    /\ UNCHANGED << CUPY_AVAILABLE, TORCH_AVAILABLE, cupy_probe, torch_cuda,
                    spc, gpu_available, device >>
    /\ UNCHANGED << avars, body, bvars, rvars, cvars, gvars, ovars >>

SimNext ==
    \/ SimCheckGpu
    \/ SimGetBestDevice
    \/ SimCall


\* ------------------------------------ gpu_similarity.py: the global instance

\* The threads that call get_similarity_calculator (the handlers of /status
\* and /compare-faces, app.py:189 and gpu_similarity.py:196).
NumGetters == 3

Getters == 1..NumGetters

\* gpu_similarity.py:174  _similarity_calculator = None; no call yet
GetterInit ==
    /\ similarity_calculator = 0
    /\ gpc = [c \in Getters |-> "start"]
    /\ got = [c \in Getters |-> 0]
    /\ ninstances = 0

\* gpu_similarity.py:179  if _similarity_calculator is None
GetCalcTest(c) ==
    /\ gpc[c] = "start"
    /\ gpc' = [gpc EXCEPT ![c] =
                  IF similarity_calculator = 0 THEN "construct" ELSE "return"]
    /\ UNCHANGED << similarity_calculator, got, ninstances >>
    /\ UNCHANGED << avars, body, bvars, svars, rvars, cvars, ovars >>

\* gpu_similarity.py:180  GPUSimilarityCalculator() is constructed (the
\* probing of lines 34-68 runs) and bound to the global, or the constructor
\* raises and the call ends with its exception
GetCalcConstruct(c) ==
    /\ gpc[c] = "construct"
    /\ \/ /\ ninstances' = ninstances + 1
          /\ similarity_calculator' = ninstances + 1
          /\ gpc' = [gpc EXCEPT ![c] = "return"]
       \/ /\ gpc' = [gpc EXCEPT ![c] = "raised"]
          /\ UNCHANGED << similarity_calculator, ninstances >>
    /\ UNCHANGED got
    /\ UNCHANGED << avars, body, bvars, svars, rvars, cvars, ovars >>

\* gpu_similarity.py:181  return _similarity_calculator
GetCalcReturn(c) ==
    /\ gpc[c] = "return"
    /\ got' = [got EXCEPT ![c] = similarity_calculator]
    /\ gpc' = [gpc EXCEPT ![c] = "done"]
    /\ UNCHANGED << similarity_calculator, ninstances >>
    /\ UNCHANGED << avars, body, bvars, svars, rvars, cvars, ovars >>

GetterNext ==
    \E c \in Getters :
       \/ GetCalcTest(c)
       \/ GetCalcConstruct(c)
       \/ GetCalcReturn(c)


\* ------------------------------------------------------- /compare-faces

\* The requests to /compare-faces the environment sends.
NumCompare == 1

\* The photo ids the candidates name; two candidates may name one photo.
PhotoIds == 1..2

\* Embeddings that can be L2-normalised: every one but the zero vector.
Normalizable == { v \in Embeddings : Norm2(v) # 0 }

\* The embedding of the first face the backend finds in a selfie
\* (app.py:291).
SelfieEmbeddings == { << 1, 0 >>, << 1, 1 >> }

\* The field embeddings of a request that has one: a non-empty list of
\* {photoId, embedding}.
EmbeddingLists ==
    UNION { [1..n -> [photoId : PhotoIds, embedding : Normalizable]] :
               n \in 1..MaxCands }

\* What becomes of a request before the similarities are asked for: a field
\* is missing or empty (app.py:273), the selfie cannot be decoded (lines
\* 277-280 raise), no face is found in it (line 287), or all is well.
CompareKinds == { "missing", "undecodable", "no_face", "ok" }

\* x < y on similarity values; every comparison with nan is false.
Less(x, y) ==
    IF x.den = 0 \/ y.den = 0 THEN FALSE
    ELSE IF x.sgn # y.sgn THEN x.sgn < y.sgn
    ELSE IF x.sgn = 1 THEN x.num * y.den < y.num * x.den
    ELSE IF x.sgn = 0 - 1 THEN x.num * y.den > y.num * x.den
    ELSE FALSE

\* app.py:293-294  stored_embeddings: the rows of the candidates
StoredEmbeddings(embeddings) ==
    [i \in 1..Len(embeddings) |-> embeddings[i].embedding]

\* app.py:301-306  one match for each similarity, with the photoId at the same
\* index
CreateMatches(embeddings, similarities) ==
    [i \in 1..Len(similarities) |->
        [photoId |-> embeddings[i].photoId, similarity |-> similarities[i]]]

\* The sort without reverse=True: smallest similarity first.
RECURSIVE InsertDescending_NoReverse(_, _)
InsertDescending_NoReverse(sorted, match) ==
    IF sorted = << >> THEN << match >>
    ELSE IF Less(match.similarity, Head(sorted).similarity)
    THEN << match >> \o sorted
    ELSE << Head(sorted) >> \o InsertDescending_NoReverse(Tail(sorted), match)

\* A match put into a list sorted by similarity, largest first, behind the
\* matches that are not smaller than it.
RECURSIVE InsertDescending(_, _)
InsertDescending(sorted, match) ==
    IF sorted = << >> THEN << match >>
    ELSE IF Less(Head(sorted).similarity, match.similarity)
    THEN << match >> \o sorted
    ELSE << Head(sorted) >> \o InsertDescending(Tail(sorted), match)

RECURSIVE SortUpTo(_, _)
SortUpTo(matches, n) ==
    IF n = 0 THEN << >>
    ELSE InsertDescending(SortUpTo(matches, n - 1), matches[n])

\* app.py:309  matches.sort(key=lambda x: x['similarity'], reverse=True): a
\* stable sort, matches of equal similarity keep their order
SortMatches(matches) == SortUpTo(matches, Len(matches))

\* A response of /compare-faces: its status code and, with 200, the matches.
CompareResponse(code, embeddings, matches) ==
    [code |-> code, embeddings |-> embeddings, matches |-> matches]

NoCompare == CompareResponse(0, << >>, << >>)

\* No request to /compare-faces yet.
CompareInit ==
    /\ ncmp = 0
    /\ cf = NoCompare

\* app.py:266-318  compare_faces, on a process whose similarity calculator
\* was constructed or whose constructor raises (line 298 then raises again)
CompareFaces ==
    /\ spc \in { "ready", "failed" }
    /\ ncmp < NumCompare
    /\ ncmp' = ncmp + 1
    /\ \E kind \in CompareKinds, q \in SelfieEmbeddings,
          embeddings \in EmbeddingLists, fails \in BOOLEAN :
          /\ fails => device \in { "cupy", "torch" }
          /\ IF kind \in { "missing", "no_face" }
             THEN /\ cf' = CompareResponse(400, << >>, << >>)
                  /\ UNCHANGED << ncalc, call >>
             ELSE IF kind = "undecodable" \/ spc = "failed"
             THEN /\ cf' = CompareResponse(500, << >>, << >>)
                  /\ UNCHANGED << ncalc, call >>
             ELSE LET stored == StoredEmbeddings(embeddings)
                      out == cosine_similarity_batch(q, stored, fails)
                  IN  /\ call' = [query |-> q, stored |-> stored,
                                  failed |-> fails,
                                  nfailed |-> call.nfailed + (IF fails THEN 1 ELSE 0),
                                  similarities |-> out.similarities,
                                  raised |-> out.raised]
                      /\ ncalc' = ncalc + 1
                      /\ cf' = IF out.raised
                               THEN CompareResponse(500, << >>, << >>)
                               ELSE CompareResponse(200, embeddings,
                                       SortMatches(CreateMatches(embeddings,
                                                      out.similarities)))
    /\ UNCHANGED << CUPY_AVAILABLE, TORCH_AVAILABLE, cupy_probe, torch_cuda,
                    spc, gpu_available, device >>
    /\ UNCHANGED << avars, body, bvars, rvars, gvars, ovars >>

CompareNext ==
    \/ SimCheckGpu
    \/ SimGetBestDevice
    \/ CompareFaces

\* ---------------------------------------------------- file reference strings

\* app.py:111  len(photo_path) == 24, scaled.
HexIdLen == 3

\* The longest reference string looked at.
MaxRefLen == 4

\* The characters of a reference: "h" stands for the prefix 'http', "c."
\* for the domain 'cloudinary.com', "7", "a", "c" are digits of
\* '0123456789abcdef', "A" is an upper-case hexadecimal digit.
Chars == { "h", "c", ".", "a", "A", "7" }

HttpPrefix == << "h" >>

CloudinaryDomain == << "c", "." >>

HexDigits == { "7", "a", "c" }

\* str.lower() of one character
Lower(ch) == IF ch = "A" THEN "a" ELSE ch

\* The non-empty strings a job can carry (the handler rejects '').
RefStrings == UNION { [1..n -> Chars] : n \in 1..MaxRefLen }

\* s.startswith(pre)
StartsWith(s, pre) ==
    /\ Len(s) >= Len(pre)
    /\ \A i \in 1..Len(pre) : s[i] = pre[i]

\* sub in s
Contains(s, sub) ==
    \E k \in 0..(Len(s) - Len(sub)) : \A i \in 1..Len(sub) : s[k + i] = sub[i]

\* The test of line 111 without .lower().
IsHexId_CaseSensitive(s) ==
    /\ Len(s) = HexIdLen
    /\ \A i \in 1..Len(s) : s[i] \in HexDigits

\* app.py:111  len(photo_path) == 24 and
\* all(c in '0123456789abcdef' for c in photo_path.lower())
IsHexId(s) ==
    /\ Len(s) = HexIdLen
    /\ \A i \in 1..Len(s) : Lower(s[i]) \in HexDigits

\* app.py:92, 111  what the worker tests of the string
Classify(s) ==
    [http |-> StartsWith(s, HttpPrefix),
     cloudinary |-> Contains(s, CloudinaryDomain),
     hex24 |-> IsHexId(s)]

RefInit ==
    /\ photo_ref \in RefStrings
    /\ ref_branch = "none"

\* app.py:92-136  the worker resolves the reference
RefResolve ==
    /\ ref_branch = "none"
    /\ ref_branch' = Branch(Classify(photo_ref))
    /\ UNCHANGED photo_ref
    /\ UNCHANGED << avars, body, bvars, svars, cvars, gvars, ovars >>

RefNext == RefResolve


\* ------------------------------------------------------------ specification

\* The bodies of the requests are left open until they are read.
BodiesOpen == body = [r \in Requests |-> Open]

\* The other components as they are while one component is looked at: no
\* batch call, no calculator, no reference.
BatchIdle == GPU_AVAILABLE = FALSE /\ BatchInit

SimIdle ==
    /\ CUPY_AVAILABLE = FALSE /\ TORCH_AVAILABLE = FALSE
    /\ cupy_probe = "ok" /\ torch_cuda = "false"
    /\ SimInit

RefIdle == photo_ref = HttpPrefix /\ RefInit

Init == BodiesOpen /\ AppInit /\ BatchIdle /\ SimIdle /\ RefIdle /\ CompareInit
    /\ GetterInit /\ OverlapInit

Next ==
    \/ \E r \in Requests : HandlerStep(r)
    \/ \E w \in Workers : WorkerStep(w)

Spec == Init /\ [][Next]_vars

\* Threads are scheduled fairly and every timeout expires.
FairSpec ==
    /\ Spec
    /\ \A r \in Requests : WF_vars(HandlerStep(r))
    /\ \A w \in Workers : WF_vars(WorkerStep(w))

\* The requests arrive with their bodies: what each carries is fixed before
\* its handler runs.
InputStart ==
    /\ body \in [Requests -> BodyKinds]
    /\ AppInit /\ BatchIdle /\ SimIdle /\ RefIdle /\ CompareInit
    /\ GetterInit /\ OverlapInit

InputSpec == InputStart /\ [][Next]_vars

\* The batch processor alone.
BatchStart ==
    BodiesOpen /\ AppInit /\ BatchInit /\ SimIdle /\ RefIdle /\ CompareInit
    /\ GetterInit /\ OverlapInit

BatchSpec == BatchStart /\ [][BatchNext]_vars

\* The similarity calculator alone.
SimStart ==
    BodiesOpen /\ AppInit /\ BatchIdle /\ SimInit /\ RefIdle /\ CompareInit
    /\ GetterInit /\ OverlapInit

SimSpec == SimStart /\ [][SimNext]_vars

\* /compare-faces on a process that constructs its similarity calculator.
CompareStart ==
    BodiesOpen /\ AppInit /\ BatchIdle /\ SimInit /\ RefIdle /\ CompareInit
    /\ GetterInit /\ OverlapInit

CompareSpec == CompareStart /\ [][CompareNext]_vars

\* Concurrent calls of get_similarity_calculator alone.
GetterStart ==
    BodiesOpen /\ AppInit /\ BatchIdle /\ SimIdle /\ RefIdle /\ CompareInit
    /\ GetterInit /\ OverlapInit

GetterSpec == GetterStart /\ [][GetterNext]_vars

\* Overlapping calls on one processor of a host with an accelerator.
OverlapStart ==
    /\ BodiesOpen /\ AppInit /\ SimIdle /\ RefIdle /\ CompareInit
    /\ GetterInit /\ OverlapInit
    /\ GPU_AVAILABLE = TRUE /\ BatchInit

OverlapSpec == OverlapStart /\ [][OverlapNext]_vars

\* The resolution of a reference alone.
RefStart ==
    BodiesOpen /\ AppInit /\ BatchIdle /\ SimIdle /\ RefInit /\ CompareInit
    /\ GetterInit /\ OverlapInit

RefSpec == RefStart /\ [][RefNext]_vars

\* ------------------------------------------------------------ shared terms

\* The workers that hold the job of request r, dequeued and not delivered.
Holders(r) == { w \in Workers : wpc[w] = "work" /\ work_item[w].job = r }

\* The requests whose job waits in some queue object.
Waiting == { r \in Requests :
               \E q \in 1..Len(queues) :
                  \E i \in 1..Len(queues[q]) : queues[q][i].job = r }

\* The jobs dequeued and not yet delivered.
InFlight == { w \in Workers : wpc[w] = "work" }

\* The worker threads that run: started, and neither ended nor dead.
Live == { w \in Workers : wpc[w] \in {"start", "load", "idle", "get", "work"} }

\* The one response the caller of r got, once the handler returned.
Response(r) == responses[r][1]

Returned(r, code) ==
    hpc[r] = "done" /\ Len(responses[r]) = 1 /\ Response(r).code = code

\* ------------------------------------------------------------------ claims

\* C1: every job a worker dequeued gets exactly one result tuple, put on that
\* job's own result channel, along every path of the loop: the puts made on
\* the channel of request r are exactly the completed iterations for r's job
\* (never zero, never two, and none for another job), and every tuple on the
\* channel of r, and every result r's caller got, is the one of r's job.
C1_ExactlyOneResult ==
    \A r \in Requests :
       /\ nput[r] + Cardinality(Holders(r)) = nclaims[r]
       /\ nput[r] <= 1
       /\ \A i \in 1..Len(result_queue[r]) : result_queue[r][i].job = r
       /\ Len(result_queue[r]) + Cardinality({ x \in Requests :
             hpc[x] = "done" /\ Response(x).job = r }) = nput[r]

\* Two jobs were processed to the end, one into an error result and one into
\* a success result.
C1_Witness ==
    \E a, b \in Requests :
       /\ nclaims[a] = 1 /\ Holders(a) = {} /\ nput[a] = 1
       /\ nclaims[b] = 1 /\ Holders(b) = {} /\ nput[b] = 1
       /\ Returned(a, 500) /\ Response(a).job = a
       /\ Returned(b, 200) /\ Response(b).job = b

\* What the caller of r got is one of the explicit outcomes: the result of
\* its own job (200, or 500 with success false), the overloaded signal, the
\* timeout signal, or the rejection of a request that names no reference
\* (400; 500 from the handler's catch-all when the body is no JSON object).
ExplicitOutcome(r) ==
    /\ hpc[r] = "done"
    /\ Len(responses[r]) = 1
    /\ \/ Response(r).code \in {200, 500} /\ Response(r).job = r
       \/ Response(r).code = 503 /\ Response(r).job = 0
       \/ Response(r).code = 504 /\ Response(r).job = 0
       \/ Response(r).code \in {400, 500} /\ Response(r).job = 0
             /\ r \notin has_rq

\* C2: under fair scheduling every /process-photo request ends, and stays
\* ended, with exactly one explicit outcome for its caller; no caller waits
\* forever, whatever becomes of its job, and no caller ever gets a second
\* response.
C2_EveryRequestEnds ==
    /\ [](\A r \in Requests : Len(responses[r]) <= 1)
    /\ <>[](\A r \in Requests : ExplicitOutcome(r))

\* Every request has ended: one with its job's result, one with the timeout
\* signal while its job was never processed, one with the overloaded signal.
C2_Witness ==
    /\ \A r \in Requests : ExplicitOutcome(r)
    /\ \E r \in Requests : Response(r).code = 200
    /\ \E r \in Requests : Response(r).code = 504 /\ nput[r] = 0
    /\ \E r \in Requests : Response(r).code = 503

\* C3: in every reachable state every queue object ever created, the one
\* app.processing_queue names among them, holds at most QueueMaxSize waiting
\* jobs.
C3_QueueBounded ==
    \A q \in 1..Len(queues) : Len(queues[q]) <= QueueMaxSize

\* The current queue is at its capacity and a handler's put is blocked on it.
C3_Witness ==
    /\ HasQueue
    /\ qsize(CurrentQueue) = QueueMaxSize
    /\ \E r \in Requests : hpc[r] = "blocked" /\ hq[r] = CurrentQueue

\* C4: at most MAX_WORKERS jobs are dequeued and not yet delivered.
C4_AtMostWInFlight ==
    Cardinality(InFlight) <= MAX_WORKERS

\* C5: a handler that finds more than SoftThreshold jobs waiting at its depth
\* check returns the overloaded signal (503) in that very step: nothing is
\* put on any queue, no result channel is created, it does not go on to the
\* put (where it could block), and the queues are as they were.
C5_RejectedUpFront ==
    [][ \A r \in Requests :
           (AtCheck(r) /\ qsize(CurrentQueue) > SoftThreshold /\ hpc'[r] # hpc[r])
           => /\ Returned(r, 503)'
              /\ queues' = queues
              /\ r \notin has_rq'
              /\ has_rq' = has_rq
              /\ result_queue' = result_queue ]_vars

\* A request was turned away at the depth check, with more than SoftThreshold
\* jobs waiting, and owns no result channel.
C5_Witness ==
    \E r \in Requests :
       /\ Returned(r, 503)
       /\ r \notin has_rq
       /\ qsize(CurrentQueue) > SoftThreshold
       /\ qsize(CurrentQueue) < QueueMaxSize

\* C6 as stated: a handler that finds SoftThreshold or more jobs waiting at
\* its depth check is not let through to the enqueue.
C6_AtOrAbove ==
    [][ \A r \in Requests :
           (AtCheck(r) /\ qsize(CurrentQueue) >= SoftThreshold /\ hpc'[r] # hpc[r])
           => hpc'[r] # "put" ]_vars

\* C6 as amended: a handler that finds strictly more than SoftThreshold jobs
\* waiting fails with 503 and enqueues nothing; one that finds SoftThreshold
\* or fewer is not turned away as overloaded at the check.
C6_StrictlyAbove ==
    [][ \A r \in Requests :
           (AtCheck(r) /\ hpc'[r] # hpc[r])
           => /\ qsize(CurrentQueue) > SoftThreshold
                    => (Returned(r, 503)' /\ queues' = queues /\ hpc'[r] # "put")
              /\ qsize(CurrentQueue) <= SoftThreshold
                    => ~Returned(r, 503)' ]_vars

\* One request was turned away as overloaded, and another, finding exactly
\* SoftThreshold jobs waiting, is on its way to the put.
C6_Witness ==
    /\ \E r \in Requests : Returned(r, 503) /\ r \notin has_rq
    /\ \E r \in Requests : hpc[r] = "put" /\ qsize(CurrentQueue) = SoftThreshold

\* C7: while no worker has dequeued anything, the jobs accepted (all of them
\* still waiting) never number more than the hard capacity: every call
\* beyond it was rejected.
C7_BeyondCapacityRejected ==
    (\A r \in Requests : nclaims[r] = 0)
    => Cardinality(Waiting) <= QueueMaxSize

C9_WorkerSurvivesFailure ==
    /\ [](\A w \in InFlight :
             \A out \in {"fetch_fails", "decode_none", "backend_raises"} :
                /\ Len(IterationPuts(work_item[w], out)) = 1
                /\ IterationPuts(work_item[w], out)[1].status = "error")
    /\ [][ \A w \in Workers :
              (wpc[w] = "work" /\ wpc'[w] # "work")
              => /\ wpc'[w] = "idle"
                 /\ Live' = Live
                 /\ AtLoop(w)' ]_vars

\* The only worker thread there is delivered an error result for one job and
\* holds a later one.
C9_Witness ==
    /\ nthreads = 1
    /\ \E a, b \in Requests :
          /\ a # b
          /\ nput[a] = 1
          /\ \/ Returned(a, 500) /\ Response(a).job = a
             \/ Len(result_queue[a]) = 1 /\ result_queue[a][1].status = "error"
          /\ Holders(b) # {}

\* C10: the queue and its worker pool are created exactly once: one queue
\* object and MAX_WORKERS worker threads at most ever exist.
C10_CreatedOnce ==
    /\ Len(queues) <= 1
    /\ nthreads <= MAX_WORKERS

\* ------------------------------------------------- claims: batch processor

\* A call of process_dynamic_batch has returned a dict to its caller.
BatchReturned == bpc = "idle" /\ returned.kind = "mapping"

\* C11: the dict a call returns has exactly the call's inputs as its keys,
\* and the empty list under every input whose processing failed, on the
\* concurrent and on the sequential path (in runs where stop_processing is
\* never called).
C11_KeysAreInputs ==
    (BatchReturned /\ ~stop_ever)
    => /\ DOMAIN returned.value = Range(image_paths)
       /\ \A p \in failed : returned.value[p] = << >>

\* C12: in a concurrent call that is not stopped every input is taken up by
\* exactly one worker task exactly once: no path is claimed twice, no two
\* tasks hold the same path, only inputs are claimed, and when the call
\* returns every input has been claimed.
C12_EveryInputClaimedOnce ==
    (GPU_AVAILABLE /\ ~stop_ever)
    => /\ \A i, j \in 1..Len(claimed) : i # j => claimed[i] # claimed[j]
       /\ Range(claimed) \subseteq Range(image_paths)
       /\ \A t \in Tasks : tpc[t] = "process" => image_path[t] \in Range(claimed)
       /\ \A t, u \in Tasks :
             (t # u /\ tpc[t] = "process" /\ tpc[u] = "process")
             => image_path[t] # image_path[u]
       /\ BatchReturned => Range(claimed) = Range(image_paths)

\* A call on three inputs, more than the two worker tasks it ran, has
\* returned with all three claimed.
C12_Witness ==
    /\ GPU_AVAILABLE /\ ~stop_ever /\ BatchReturned
    /\ Len(image_paths) = 3 /\ futures = 2
    /\ Len(claimed) = 3

C14_SequentialFallback ==
    ~GPU_AVAILABLE
    => /\ \A t \in Tasks : tpc[t] = "none"
       /\ futures = 0
       /\ processing_queue = << >>
       /\ Len(claimed) <= Len(image_paths)
       /\ claimed = SubSeq(image_paths, 1, Len(claimed))
       /\ BatchReturned => claimed = image_paths

\* A sequential call on three inputs, given in an order that is not the
\* sorted one, has returned.
C14_Witness ==
    /\ ~GPU_AVAILABLE /\ BatchReturned
    /\ image_paths = << 2, 3, 1 >>
    /\ claimed = image_paths
    /\ DOMAIN returned.value = Range(image_paths)

\* C15: while a batch runs with the flag cleared by stop_processing no task
\* claims a path, and an item in progress is still completed with its result
\* stored in the result dict.
C15_NoClaimAfterStop ==
    /\ [][ (bpc \in { "submit", "wait" } /\ ~processing)
           => claimed' = claimed ]_vars
    /\ [][ \A t \in Tasks :
              (bpc \in { "submit", "wait" } /\ ~processing
                  /\ tpc[t] = "process" /\ tpc'[t] # "process")
              => image_path[t] \in DOMAIN results' ]_vars

\* C28: a call of process_dynamic_batch on a non-empty list has invoked the
\* progress_callback it was given at least once by the time it returns, on
\* the concurrent and on the sequential path.  (Every call is taken to pass
\* a callback; nothing the code does depends on it.)
C28_ProgressReported ==
    (BatchReturned /\ Len(image_paths) > 0) => progress_calls > 0

\* C31: in a concurrent call, with stop_processing never called, a worker
\* task leaves the loop only in a step taken with the queue empty, and in
\* every state in which paths are still on the queue every worker task that
\* was submitted is at the loop test, at the get, processing an item or at
\* the progress line that ends its turn of the loop.
C31_NoIdleWorkerWhileWorkRemains ==
    /\ [][ \A t \in Tasks :
              (~stop_ever' /\ tpc[t] # "exited" /\ tpc'[t] = "exited")
              => processing_queue = << >> ]_vars
    /\ []((bpc \in { "submit", "wait" } /\ ~stop_ever
              /\ processing_queue # << >>)
          => \A t \in 1..futures :
                tpc[t] \in { "loop", "get", "process", "log" })

\* Both worker tasks of a call on three inputs are processing an item while
\* the third is still on the queue.
C31_Witness ==
    /\ GPU_AVAILABLE /\ ~stop_ever /\ bpc = "wait" /\ futures = 2
    /\ processing_queue # << >>
    /\ tpc[1] = "process" /\ tpc[2] = "process"

\* The worker tasks that are processing an item at the moment.
InProgress == { t \in Tasks : tpc[t] = "process" }

C35_KeysAmongOwnInputs ==
    BatchReturned => DOMAIN returned.value \subseteq Range(image_paths)

\* C37: a call of process_dynamic_batch with an empty list ends normally,
\* returning an empty dict and having started no worker task, with and
\* without an accelerator.
C37_EmptyInputReturnsEmpty ==
    (bpc = "idle" /\ returned.kind # "none" /\ image_paths = << >>)
    => /\ returned = Mapping(EmptyMap)
       /\ futures = 0

\* C33: in the concurrent path every milestone the completed count reached,
\* a multiple of the reporting interval or the number of inputs, was reported
\* by a progress line of some worker task: checked when the first call of a
\* processor returns without having been stopped.
C33_EveryMilestoneReported ==
    (GPU_AVAILABLE /\ BatchReturned /\ ncalls = 1 /\ ~stop_ever)
    => \A k \in 1..completed_count : Milestone(k) => k \in reported

\* C36: when calls of process_dynamic_batch on the same processor overlap,
\* each call returns a dict whose keys are exactly its own inputs.
C36_EachCallItsOwnInputs ==
    \A c \in Callers :
       caller_returned[c].kind = "mapping"
       => DOMAIN caller_returned[c].value = Range(caller_paths[c])

\* ------------------------------------------- claims: similarity calculator

\* The score of one candidate: dot(q, c) / (|q| |c|).
ScoreOf(q, c) ==
    IF Norm2(q) * Norm2(c) = 0 THEN NaN
    ELSE Quotient(Dot(q, c), Norm2(q) * Norm2(c))

\* C16: every call returns as many scores as it was given candidates, and
\* score i is the cosine of the query and candidate i, on every backend and
\* when the call fell back to NumPy (on the torch backend a zero vector
\* scores 0 where the quotient is undefined).
C16_OneScorePerCandidate ==
    ncalc > 0
    => /\ ~call.raised
       /\ Len(call.similarities) = Len(call.stored)
       /\ \A i \in 1..Len(call.stored) :
             \/ call.similarities[i] = ScoreOf(call.query, call.stored[i])
             \/ /\ device = "torch" /\ ~call.failed
                /\ Norm2(call.query) * Norm2(call.stored[i]) = 0
                /\ call.similarities[i] = Zero

\* A call on an accelerated backend fell back to NumPy and returned two
\* different scores for its two candidates.
C16_Witness ==
    /\ ncalc > 0 /\ call.failed
    /\ device \in { "cupy", "torch" }
    /\ Len(call.stored) = 2 /\ Len(call.similarities) = 2
    /\ call.similarities[1] # call.similarities[2]
    /\ call.similarities[1] = ScoreOf(call.query, call.stored[1])
    /\ call.similarities[2] # NaN

\* The backends in the order of their priority, and the probe of each: the
\* library is importable and its test succeeds; NumPy always succeeds.
BackendPriority == << "cupy", "torch", "numpy" >>

ProbeSucceeds(b) ==
    CASE b = "cupy" -> CUPY_AVAILABLE /\ cupy_probe = "ok"
      [] b = "torch" -> TORCH_AVAILABLE /\ torch_cuda = "true"
      [] OTHER -> TRUE

\* C17: a constructed calculator's device is the first backend in the order
\* cupy, torch, numpy whose probe succeeds: every backend above the selected
\* one is unavailable or failed its probe.
C17_FirstAvailableBackend ==
    spc = "ready"
    => \E i \in 1..Len(BackendPriority) :
          /\ device = BackendPriority[i]
          /\ ProbeSucceeds(BackendPriority[i])
          /\ \A j \in 1..(i - 1) : ~ProbeSucceeds(BackendPriority[j])

\* CuPy is installed and its test raised; torch, second in the order, was
\* selected.
C17_Witness ==
    /\ spc = "ready"
    /\ CUPY_AVAILABLE /\ cupy_probe = "raises"
    /\ device = "torch"

\* C18: the construction never fails, whatever the libraries do when probed,
\* and when no accelerated probe succeeds the device is numpy.
C18_ConstructionNeverFails ==
    /\ spc # "failed"
    /\ (spc = "ready" /\ ~ProbeSucceeds("cupy") /\ ~ProbeSucceeds("torch"))
       => device = "numpy"

\* C19: every call during which the accelerated backend failed, the first
\* one and every later one, raised nothing and returned exactly what the
\* NumPy path returns for the same arguments.
C19_FallbackEveryCall ==
    (ncalc > 0 /\ call.failed)
    => /\ ~call.raised
       /\ call.similarities = numpy_cosine_similarity(call.query, call.stored)

\* The torch backend failed in two calls; the second returned NumPy's nan
\* for a zero candidate, where torch itself gives 0.
C19_Witness ==
    /\ device = "torch"
    /\ call.nfailed = 2 /\ call.failed /\ ~call.raised
    /\ Len(call.stored) = 2
    /\ call.stored[1] = << 0, 0 >>
    /\ call.similarities[1] = NaN
    /\ call.similarities = numpy_cosine_similarity(call.query, call.stored)

\* C25: a call with no candidates gives an empty array and raises nothing, on
\* the device the calculator chose and on each backend taken alone, whether
\* or not the accelerated path fails.
C25_EmptyCandidates ==
    /\ (ncalc > 0 /\ call.stored = << >>)
       => (call.similarities = << >> /\ ~call.raised)
    /\ \A q \in Embeddings, fails \in BOOLEAN :
          /\ numpy_cosine_similarity(q, << >>) = << >>
          /\ cupy_cosine_similarity(q, << >>, fails) = << >>
          /\ torch_cosine_similarity(q, << >>, fails) = << >>
          /\ spc = "ready"
             => /\ cosine_similarity_batch(q, << >>, fails).similarities = << >>
                /\ ~cosine_similarity_batch(q, << >>, fails).raised

\* A calculator on an accelerated device was called with no candidates and
\* gave the empty array.
C25_Witness ==
    /\ spc = "ready"
    /\ device \in { "cupy", "torch" }
    /\ ncalc > 0
    /\ call.stored = << >>
    /\ call.similarities = << >>
    /\ ~call.raised

\* C38: once the calculator is constructed, self.gpu_available is true
\* exactly if self.device is "cupy" or "torch", for every combination of
\* installed libraries and outcomes of the probes.
C38_FlagMatchesBackend ==
    spc = "ready" => (gpu_available <=> device \in { "cupy", "torch" })

\* C34: whatever the interleaving of the first callers of
\* get_similarity_calculator, at most one calculator is ever constructed and
\* every call that returns gives its caller that one calculator.
C34_OneCalculator ==
    /\ ninstances <= 1
    /\ \A c \in Getters : gpc[c] = "done" => got[c] = 1

\* ------------------------------------------------ claims: file references

\* A remote URL that names the object-storage domain.
IsRemoteStorageURL(s) == StartsWith(s, HttpPrefix) /\ Contains(s, CloudinaryDomain)

\* The upper-case hexadecimal digits among the characters.
UpperHexDigits == { "A" }

\* A token of HexIdLen characters, each of them in the given set.
IsToken(s, digits) == Len(s) = HexIdLen /\ \A i \in 1..Len(s) : s[i] \in digits

\* C20 as stated: the worker takes the remote fetch for a remote URL with the
\* storage domain; else the image service if and only if the string is a
\* token of lower-case hexadecimal digits; else, for every other string, one
\* with an upper-case hexadecimal digit too, the local file system.
C20_LowercaseHexOnly ==
    ref_branch # "none"
    => /\ ref_branch = "cloudinary" <=> IsRemoteStorageURL(photo_ref)
       /\ ref_branch = "gridfs" <=>
             (~IsRemoteStorageURL(photo_ref) /\ IsToken(photo_ref, HexDigits))
       /\ ref_branch = "local" <=>
             (~IsRemoteStorageURL(photo_ref) /\ ~IsToken(photo_ref, HexDigits))

\* C20 as amended: the same with the token's digits in either case.
C20_HexOfEitherCase ==
    ref_branch # "none"
    => /\ ref_branch \in { "cloudinary", "gridfs", "local" }
       /\ ref_branch = "cloudinary" <=> IsRemoteStorageURL(photo_ref)
       /\ ref_branch = "gridfs" <=>
             (~IsRemoteStorageURL(photo_ref)
                 /\ IsToken(photo_ref, HexDigits \cup UpperHexDigits))
       /\ ref_branch = "local" <=>
             (~IsRemoteStorageURL(photo_ref)
                 /\ ~IsToken(photo_ref, HexDigits \cup UpperHexDigits))

\* A token with an upper-case digit was resolved through the image service.
C20_Witness ==
    /\ photo_ref = << "a", "A", "7" >>
    /\ ref_branch = "gridfs"

\* ------------------------------------------- claims: /process-photo outcomes

\* The response the handler of r returns in this step.
NewResponse(r) == responses'[r][Len(responses'[r])]

\* C21: a job whose image resolves and decodes and whose backend returns an
\* empty list gets exactly the success result with no faces, whichever of
\* the three branches its reference takes, and the handler that receives a
\* success result with no faces answers 200, success true, faces = [].
C21_NoFacesIsSuccess ==
    /\ [](\A w \in InFlight :
             LET puts == IterationPuts(work_item[w], "returns_empty")
             IN  /\ Len(puts) = 1
                 /\ puts[1].status = "success"
                 /\ puts[1].faces = << >>
                 /\ puts[1].job = work_item[w].job)
    /\ [][ \A r \in Requests :
              (/\ hpc[r] = "await" /\ hpc'[r] = "done"
               /\ result_queue[r] # << >>
               /\ Head(result_queue[r]).status = "success"
               /\ Head(result_queue[r]).faces = << >>)
              => /\ Returned(r, 200)'
                 /\ NewResponse(r).success
                 /\ NewResponse(r).faces = << >>
                 /\ NewResponse(r).error = "" ]_vars

\* On each of the three branches a request was answered with its own job's
\* success result and no faces.
C21_Witness ==
    \A b \in {"cloudinary", "gridfs", "local"} :
       \E r \in Requests :
          /\ Branch(ReferenceOf(r)) = b
          /\ nclaims[r] = 1 /\ nput[r] = 1
          /\ Returned(r, 200)
          /\ Response(r).job = r
          /\ Response(r).success
          /\ Response(r).faces = << >>

\* C22: the response of /process-photo follows from the outcome of the job:
\* a success result is answered 200 with that job's faces, an error result
\* 500 with success false, no result within the await window 504, a
\* rejection at the depth check or a put that found the queue full 503; no
\* response says success with an error code or the reverse.
C22_ResponseFollowsOutcome ==
    /\ [][ \A r \in Requests :
              (hpc[r] # "done" /\ hpc'[r] = "done")
              => IF hpc[r] = "await" /\ result_queue[r] # << >>
                 THEN LET res == Head(result_queue[r])
                      IN  /\ res.status = "success"
                                => /\ NewResponse(r).code = 200
                                   /\ NewResponse(r).success
                                   /\ NewResponse(r).faces = res.faces
                                   /\ NewResponse(r).job = r
                          /\ res.status = "error"
                                => /\ NewResponse(r).code = 500
                                   /\ ~NewResponse(r).success
                                   /\ NewResponse(r).job = r
                 ELSE IF hpc[r] = "await"
                 THEN NewResponse(r).code = 504
                 ELSE IF hpc[r] = "blocked" \/ Overloaded(CurrentQueue)
                 THEN NewResponse(r).code = 503
                 ELSE /\ NewResponse(r).code \in {400, 500}
                      /\ NewResponse(r).job = 0 ]_vars
    /\ [](\A r \in Requests :
             hpc[r] = "done"
             => (Response(r).success <=> Response(r).code = 200))

\* One request was answered with its job's faces, one with its job's error
\* and one with the timeout signal.
C22_Witness ==
    \E a, b, c \in Requests :
       /\ Returned(a, 200) /\ Response(a).job = a
             /\ Response(a).faces # << >>
       /\ Returned(b, 500) /\ Response(b).job = b /\ ~Response(b).success
       /\ Returned(c, 504)

\* C23: a request that carries neither file_reference nor photoPath is
\* answered 400, whatever the queue holds when its handler looks at it, and
\* no job of it is ever enqueued.
C23_MissingFieldIs400 ==
    /\ [][ \A r \in Requests :
              (body[r] = "missing" /\ hpc[r] # "done" /\ hpc'[r] = "done")
              => (Returned(r, 400)' /\ queues' = queues) ]_vars
    /\ [](\A r \in Requests :
             body[r] = "missing" => (r \notin Waiting /\ nclaims[r] = 0))

\* ------------------------------------------------ claims: /compare-faces

\* The ways to list the candidates 1..n in some order.
Orderings(n) ==
    { p \in [1..n -> 1..n] : \A i, j \in 1..n : p[i] = p[j] => i = j }

\* C24: a 200 response of /compare-faces holds exactly one match for each
\* candidate of the request, the match of candidate i pairing i's photoId
\* with the similarity computed for i; the matches are in order of
\* non-increasing similarity, so the first has the largest similarity of all,
\* and a candidate whose embedding is the selfie's has similarity 1 and no
\* match stands before one of similarity 1 with less.  (Candidate embeddings
\* can be L2-normalised.)
C24_MatchesSortedAndPaired ==
    cf.code = 200
    => LET n == Len(cf.embeddings)
       IN  /\ Len(cf.matches) = n
           /\ Len(call.similarities) = n
           /\ call.stored = StoredEmbeddings(cf.embeddings)
           /\ \E p \in Orderings(n) :
                 \A k \in 1..n :
                    /\ cf.matches[k].photoId = cf.embeddings[p[k]].photoId
                    /\ cf.matches[k].similarity = call.similarities[p[k]]
           /\ \A k \in 1..(n - 1) :
                 ~Less(cf.matches[k].similarity, cf.matches[k + 1].similarity)
           /\ \A i \in 1..n :
                 ~Less(cf.matches[1].similarity, call.similarities[i])
           /\ \A i \in 1..n :
                 cf.embeddings[i].embedding = call.query
                 => cf.matches[1].similarity = Quotient(1, 1)

\* A request with two candidates naming different photos, the second with
\* the selfie's own embedding and the first with a smaller similarity, was
\* answered with the second candidate's match first.
C24_Witness ==
    /\ cf.code = 200
    /\ Len(cf.embeddings) = 2
    /\ cf.embeddings[1].photoId # cf.embeddings[2].photoId
    /\ cf.embeddings[2].embedding = call.query
    /\ Less(call.similarities[1], call.similarities[2])
    /\ cf.matches[1].photoId = cf.embeddings[2].photoId
    /\ cf.matches[2].photoId = cf.embeddings[1].photoId

\* ------------------------------------------------ claims: the job queue

\* C27: jobs are dequeued in the order they were enqueued: when a worker
\* dequeues a job, no job that was enqueued before it still waits in a
\* queue.
C27_DequeuedInEnqueueOrder ==
    [][ \A w \in Workers :
           (wpc[w] = "get" /\ wpc'[w] = "work")
           => \A q \in 1..Len(queues') :
                 \A i \in 1..Len(queues'[q]) :
                    queues'[q][i].at > work_item'[w].at ]_vars

\* C29: no worker thread ever ends: the stop sentinel is the one way out of
\* the loop and nothing puts it on the queue, so neither the acquisition of
\* the face processor, nor a dequeue timeout, nor a failure inside the loop
\* ends a thread that was started.
C29_EndsOnlyBySentinel ==
    \A w \in Workers : wpc[w] # "dead"

\* The places a job can be: the items of r's job waiting in the queues.
ItemsOf(r) ==
    { << q, i >> \in (1..Len(queues)) \X (1..QueueMaxSize) :
         i <= Len(queues[q]) /\ queues[q][i].job = r }

\* C30: a job is dequeued at most once and held by at most one worker: it
\* waits in one place at most, once dequeued it never waits again, no two
\* workers hold it, and the step that ends its processing, failed or not,
\* puts nothing on any queue.
C30_ClaimedAtMostOnce ==
    /\ [](\A r \in Requests :
             /\ nclaims[r] <= 1
             /\ Cardinality(Holders(r)) <= 1
             /\ Cardinality(ItemsOf(r)) <= 1
             /\ nclaims[r] > 0 => ItemsOf(r) = {})
    /\ [][ \A w \in Workers :
              (wpc[w] = "work" /\ wpc'[w] # "work") => queues' = queues ]_vars

\* Two workers hold two different jobs while a third job, whose processing
\* failed, is neither waiting nor held.
C30_Witness ==
    \E a, b, c \in Requests :
       /\ a # b /\ b # c /\ a # c
       /\ nclaims[a] = 1 /\ nput[a] = 1 /\ Holders(a) = {} /\ ItemsOf(a) = {}
       /\ \/ Returned(a, 500) /\ Response(a).job = a
          \/ Len(result_queue[a]) = 1 /\ result_queue[a][1].status = "error"
       /\ \E v, w \in Workers : v # w /\ Holders(b) = {v} /\ Holders(c) = {w}

\* At most one handler is between its depth check (app.py:221) and the end
\* of its put (app.py:239).
OneAtATime ==
    Cardinality({ r \in Requests : hpc[r] \in { "put", "blocked" } }) <= 1

\* C39: in a run in which the handlers go through the depth check and the
\* put one at a time, no queue object ever holds more than the threshold of
\* the depth check plus one jobs, and no put ever finds its queue full, so
\* the 503 of the put's timeout is not reached.
C39_SerialHandlersNeverFill ==
    []OneAtATime
    => [](/\ \A q \in 1..Len(queues) : qsize(q) <= SoftThreshold + 1
          /\ \A r \in Requests : hpc[r] # "blocked")

\* A job waits on the queue, one more than the threshold, and a later request
\* was turned away at the depth check while no other handler was between its
\* check and its put.
C39_Witness ==
    /\ OneAtATime
    /\ \A r \in Requests : hpc[r] \notin { "put", "blocked" }
    /\ \E q \in 1..Len(queues) : qsize(q) = SoftThreshold + 1
    /\ \E r \in Requests : Returned(r, 503)
    /\ Len(queues) = 1

\* C40: at most one FaceProcessor is ever constructed: a thread that
\* constructs one and binds it to the global (app.py:65) does so while the
\* global is still None, so that every caller of get_face_processor gets the
\* one instance.
C40_OneFaceProcessor ==
    [][ \A w \in Workers :
           (wpc[w] = "load" /\ wpc'[w] = "idle") => face_processor = 0 ]_vars

=============================================================================
